---- MODULE Spec2Model ----
(***************************************************************************)
(* A model of v2/cardiomyocytes_helper_functions.py: the mask builder      *)
(* (create_mask_from_shapes), the gap/overlap resolver                     *)
(* (fill_gaps_between_cells), the vertex-mode orientation estimator        *)
(* (orientations_from_vertices), the perpendicularity scorer               *)
(* (calculate_perpendicular_index), the signal interpolator                *)
(* (interpolate_and_fill) and the two parameter-checked entry points       *)
(* (get_internal_points, divide_cell_outside_ring).                        *)
(*                                                                         *)
(* Every function is a synchronous call.  Each one has its own             *)
(* specification (SpecMask, SpecGaps, ...): Init draws the arguments of    *)
(* the call from bounded sets, the actions are the statements of the       *)
(* function, and the variables of the other functions stay idle.           *)
(***************************************************************************)
EXTENDS Integers, Sequences, FiniteSets, TLC

VARIABLES
    \* create_mask_from_shapes
    vertices_polygons,   \* the argument: the ordered list of polygons
    i,                   \* the loop index of enumerate(vertices_polygons)
    mask,                \* the uint8 label grid being accumulated
    mask_single,         \* the local mask_single: unbound until line 44 runs
    accumulated,         \* history: the pixel set added at each iteration
    ret_overlap,         \* returned mask_shapes_overlap
    ret_shapes,          \* returned mask_shapes
    mk_pc,               \* "idle" | "loop" | "returned" | "raised"
    mk_err,              \* the exception that ended the call, "" if none
    \* fill_gaps_between_cells
    mask_shapes_overlap, \* the argument: an overlap-aware mask
    mask_trimmed,        \* the local mask_trimmed (lines 317-319)
    to_divide,           \* the local to_divide (line 322)
    im_divided,          \* the returned im_divided (line 325)
    fg_pc,               \* "idle" | "start" | "opened" | "eroded" | "closed" | "done"
    \* calculate_perpendicular_index
    alpha, beta,         \* the arguments, in units of pi/(2*HalfPi)
    M,                   \* the returned quotient, as a fraction
    pi_pc,               \* "idle" | "call" | "returned"
    \* orientations_from_vertices (vert is also get_internal_points' argument)
    vert,                \* the argument: (row, col) vertices of a closed polygon
    my_rad_list,         \* the returned list of angles
    ov_pc,               \* "idle" | "call" | "returned"
    \* interpolate_and_fill
    signal,              \* the caller's array, passed by reference
    signal_before,       \* history: its values when the call was made
    it_ret,              \* the returned array
    it_pc,               \* "idle" | "call" | "returned" | "raised"
    it_err,              \* the exception that ended the call, "" if none
    \* get_internal_points, divide_cell_outside_ring
    cfg_fn,              \* which of the two functions is called
    line_width,          \* get_internal_points' line_width
    n_seed,              \* divide_cell_outside_ring: pixels of the seed contour
    segment_number,      \* divide_cell_outside_ring's segment_number
    cfg_ret,             \* the returned value
    cfg_pc,              \* "idle" | "call" | "returned" | "raised"
    cfg_err              \* the exception that ended the call, "" if none

maskVars == <<vertices_polygons, i, mask, mask_single, accumulated,
              ret_overlap, ret_shapes, mk_pc, mk_err>>
gapVars  == <<mask_shapes_overlap, mask_trimmed, to_divide, im_divided, fg_pc>>
angVars  == <<alpha, beta, M, pi_pc>>
oriVars  == <<vert, my_rad_list, ov_pc>>
itpVars  == <<signal, signal_before, it_ret, it_pc, it_err>>
cfgVars  == <<cfg_fn, line_width, n_seed, segment_number, cfg_ret, cfg_pc, cfg_err>>
vars     == <<maskVars, gapVars, angVars, oriVars, itpVars, cfgVars>>

notMask   == <<gapVars, angVars, oriVars, itpVars, cfgVars>>
notGaps   == <<maskVars, angVars, oriVars, itpVars, cfgVars>>
notAngle  == <<maskVars, gapVars, oriVars, itpVars, cfgVars>>
notOrient == <<maskVars, gapVars, angVars, itpVars, cfgVars>>
notInterp == <<maskVars, gapVars, angVars, oriVars, cfgVars>>
notConfig == <<maskVars, gapVars, angVars, oriVars, itpVars>>

-----------------------------------------------------------------------------
(* Bounds of the model *)

\* The image is one row of ImWidth pixels: im_shape = (1, ImWidth).
ImWidth == 3
\* The longest list of polygons handed to create_mask_from_shapes.
MaxPolys == 3
\* Angles are integer multiples of pi/(2*HalfPi): pi/2 is HalfPi units.
HalfPi == 2
\* Angles range over MaxTurns full turns to either side of 0.
MaxTurns == 2
\* Vertex coordinates range over 0 .. MaxCoord, polygons have up to MaxVerts vertices.
MaxCoord == 1
MaxVerts == 4
\* Signals have up to MaxLen samples with defined values 0 .. MaxValue.
MaxLen == 3
MaxValue == 2
\* get_internal_points is called with line_width in 0 .. MaxLineWidth.
MaxLineWidth == 5
\* divide_cell_outside_ring: up to MaxSeed seed-contour pixels, MaxSegments segments.
MaxSeed == 12
MaxSegments == 12

-----------------------------------------------------------------------------
(* Images *)

\* A pixel is its column in the single image row.
Pixels == 0 .. (ImWidth - 1)

\* Euclidean distance between two pixels of the row.
Dist(p, q) == IF p >= q THEN p - q ELSE q - p

B2I(b) == IF b THEN 1 ELSE 0

ZeroMask == [p \in Pixels |-> 0]
FalseMask == [p \in Pixels |-> FALSE]

\* The value 255 that marks a pixel claimed by more than one polygon.
Sentinel == 255
\* The number of values of numpy's uint8.
Uint8Mod == 256

-----------------------------------------------------------------------------
(* create_mask_from_shapes *)

\* What the rasterizer (polygon2mask) returns for a polygon clipped to the
\* image row: a run of consecutive pixels, or nothing.
PolygonFills == {lo .. hi : lo \in Pixels, hi \in Pixels} \cup {{}}

\* A polygon: the number of axes of its vertex array (2, or 3 when the
\* drawing was made in 3D) and the interior the rasterizer yields for its
\* vertices.
Polygons == [ndim : {2, 3}, fill : PolygonFills]

PolygonLists == UNION {[1 .. n -> Polygons] : n \in 1 .. MaxPolys}

\* polygon2mask(im_shape, vertices_polygons[i])
polygon2mask(poly) == poly.fill

\* line 47: mask[mask_single] = mask[mask_single] + (i+1), in uint8
AddLabel(m, idx, single) ==
    [p \in Pixels |-> IF p \in single THEN (m[p] + (idx + 1)) % Uint8Mod ELSE m[p]]

\* line 50: mask[mask > (i+1)] = 255
MarkOverlap(m, idx) ==
    [p \in Pixels |-> IF m[p] > idx + 1 THEN Sentinel ELSE m[p]]

\* lines 55-56: mask_shapes = mask_shapes_overlap.copy(); mask_shapes[== 255] = 0
ZeroSentinel(m) == [p \in Pixels |-> IF m[p] = Sentinel THEN 0 ELSE m[p]]

Unbound == [bound |-> FALSE, px |-> {}]
Bound(s) == [bound |-> TRUE, px |-> s]

InitMask ==
    /\ vertices_polygons \in PolygonLists
    /\ i = 0
    /\ mask = ZeroMask
    /\ mask_single = Unbound
    /\ accumulated = <<>>
    /\ ret_overlap = ZeroMask
    /\ ret_shapes = ZeroMask
    /\ mk_pc = "loop"
    /\ mk_err = ""

IdleMask ==
    /\ vertices_polygons = <<>>
    /\ i = 0
    /\ mask = ZeroMask
    /\ mask_single = Unbound
    /\ accumulated = <<>>
    /\ ret_overlap = ZeroMask
    /\ ret_shapes = ZeroMask
    /\ mk_pc = "idle"
    /\ mk_err = ""

InLoop == mk_pc = "loop" /\ i < Len(vertices_polygons)

\* One iteration for a polygon drawn in 2D (lines 42-50).
MaskStep2D ==
    /\ InLoop
    /\ vertices_polygons[i + 1].ndim <= 2
    /\ LET single == polygon2mask(vertices_polygons[i + 1]) IN
        /\ mask_single' = Bound(single)
        /\ mask' = MarkOverlap(AddLabel(mask, i, single), i)
        /\ accumulated' = Append(accumulated, single)
    /\ i' = i + 1
    /\ UNCHANGED <<vertices_polygons, ret_overlap, ret_shapes, mk_pc, mk_err>>
    /\ UNCHANGED notMask

\* One iteration for a polygon drawn in 3D (lines 40-41, 47-50): line 41
\* binds mask_coord, and lines 47-50 go on to use mask_single, which still
\* holds the previous 2D polygon's interior.
MaskStep3DStale ==
    /\ InLoop
    /\ vertices_polygons[i + 1].ndim > 2
    /\ mask_single.bound
    /\ mask' = MarkOverlap(AddLabel(mask, i, mask_single.px), i)
    /\ accumulated' = Append(accumulated, mask_single.px)
    /\ i' = i + 1
    /\ UNCHANGED <<vertices_polygons, mask_single, ret_overlap, ret_shapes, mk_pc, mk_err>>
    /\ UNCHANGED notMask

\* The same iteration when no 2D polygon came before: line 47 reads the
\* unbound local mask_single.
MaskStep3DUnbound ==
    /\ InLoop
    /\ vertices_polygons[i + 1].ndim > 2
    /\ ~mask_single.bound
    /\ mk_pc' = "raised"
    /\ mk_err' = "NameError"
    /\ UNCHANGED <<vertices_polygons, i, mask, mask_single, accumulated, ret_overlap, ret_shapes>>
    /\ UNCHANGED notMask

\* The same iteration when skimage.draw.polygon rejects the 2-D coordinate
\* slices [:,1] and [:,2] of a 3-D vertex array (line 41).
MaskStep3DRejected ==
    /\ InLoop
    /\ vertices_polygons[i + 1].ndim > 2
    /\ mk_pc' = "raised"
    /\ mk_err' = "ValueError"
    /\ UNCHANGED <<vertices_polygons, i, mask, mask_single, accumulated, ret_overlap, ret_shapes>>
    /\ UNCHANGED notMask

\* lines 52-58
MaskReturn ==
    /\ mk_pc = "loop"
    /\ i = Len(vertices_polygons)
    /\ ret_overlap' = mask
    /\ ret_shapes' = ZeroSentinel(mask)
    /\ mk_pc' = "returned"
    /\ UNCHANGED <<vertices_polygons, i, mask, mask_single, accumulated, mk_err>>
    /\ UNCHANGED notMask

NextMask ==
    \/ MaskStep2D
    \/ MaskStep3DStale
    \/ MaskStep3DUnbound
    \/ MaskStep3DRejected
    \/ MaskReturn

\* The whole call on a list of 2D polygons, as the fold the loop computes.
RECURSIVE MaskAfter(_, _)
MaskAfter(polys, n) ==
    IF n = 0 THEN ZeroMask
    ELSE MarkOverlap(AddLabel(MaskAfter(polys, n - 1), n - 1, polygon2mask(polys[n])), n - 1)

create_mask_from_shapes(polys) ==
    LET m == MaskAfter(polys, Len(polys))
    IN [overlap |-> m, shapes |-> ZeroSentinel(m)]

-----------------------------------------------------------------------------
(* fill_gaps_between_cells *)

\* Radii of the structuring elements and the expansion distance.
SmallRing == 8
BigRing == 10
OpeningRadius == 10
ErosionRadius == 5
ClosingRadius == 2
ExpandDistance == 250

BoolMasks == [Pixels -> BOOLEAN]

\* The overlap-aware masks create_mask_from_shapes returns.  A polygon drawn
\* in 3D contributes the interior of the 2D polygon before it, so the lists
\* of 2D polygons already yield every mask the builder can return.
PolygonLists2D == {ps \in PolygonLists : \A k \in DOMAIN ps : ps[k].ndim = 2}
BuilderMasks == {create_mask_from_shapes(ps).overlap : ps \in PolygonLists2D}

\* np.max(mask_shapes)
MaxOf(m) == CHOOSE v \in {m[p] : p \in Pixels} : \A q \in Pixels : m[q] <= v

\* binary_dilation(img, disk(r)) on the image row
binary_dilation(img, r) ==
    [p \in Pixels |-> \E q \in Pixels : img[q] /\ Dist(p, q) <= r]

\* lines 298-304: the ring of width r around the region labelled lab
Ring(shapes, lab, r) ==
    LET region == [p \in Pixels |-> shapes[p] = lab]
        dilated == binary_dilation(region, r)
    IN [p \in Pixels |-> B2I(dilated[p]) - B2I(region[p])]

\* np.sum over the list of per-region grids, axis 0
RECURSIVE SumRings(_, _, _)
SumRings(shapes, n, r) ==
    IF n = 0 THEN ZeroMask
    ELSE LET rest == SumRings(shapes, n - 1, r)
             ring == Ring(shapes, n, r)
         IN [p \in Pixels |-> rest[p] + ring[p]]

\* line 308
Possible(shapes) ==
    LET s == SumRings(shapes, MaxOf(shapes), BigRing)
    IN [p \in Pixels |-> s[p] > 1]

\* lines 312-313
RECURSIVE Passages(_, _)
Passages(shapes, n) ==
    IF n = 0 THEN ZeroMask
    ELSE LET rest == Passages(shapes, n - 1)
             ring == Ring(shapes, n, SmallRing)
             poss == Possible(shapes)
         IN [p \in Pixels |-> rest[p] + B2I(ring[p] # 0 /\ poss[p])]

\* line 316
MaskToTrim(overlap) ==
    LET shapes == ZeroSentinel(overlap)
        passages == Passages(shapes, MaxOf(shapes))
    IN [p \in Pixels |-> overlap[p] > 0 \/ passages[p] > 1]

\* opening(img, disk(r)), binary_erosion(img, disk(r)), closing(img, disk(r)):
\* library calls whose result is left open; any boolean grid may come back.
opening(img, r) == BoolMasks
binary_erosion(img, r) == BoolMasks
closing(img, r) == BoolMasks

NoOverlapUnion(morph, overlap) == morph

\* lines 317-319: (morph | mask_shapes_overlap) > 0
TrimUnion(morph, overlap) ==
    [p \in Pixels |-> morph[p] \/ overlap[p] > 0]

NoSentinelTerm(trimmed, overlap) ==
    [p \in Pixels |-> B2I(trimmed[p]) - B2I(overlap[p] > 0)]

\* line 322
ToDivide(trimmed, overlap) ==
    [p \in Pixels |->
        B2I(trimmed[p]) - B2I(overlap[p] > 0) + B2I(overlap[p] = Sentinel)]

\* The labelled pixels nearest to p, no farther than d.
NearestLabelled(lab, p, d) ==
    LET cand == {q \in Pixels : lab[q] # 0 /\ Dist(p, q) <= d}
    IN {q \in cand : \A c \in cand : Dist(p, q) <= Dist(p, c)}

\* expand_labels(lab, d): every pixel within d of a label takes the label of
\* a nearest labelled pixel (which one, among equally near ones, is the
\* distance transform's choice); the other pixels are 0.
expand_labels(lab, d) ==
    LET choices(p) ==
            IF NearestLabelled(lab, p, d) = {} THEN {0}
            ELSE {lab[q] : q \in NearestLabelled(lab, p, d)}
    IN {e \in [Pixels -> UNION {choices(p) : p \in Pixels}] :
            \A p \in Pixels : e[p] \in choices(p)}

InitGaps ==
    /\ mask_shapes_overlap \in BuilderMasks
    /\ mask_trimmed = FalseMask
    /\ to_divide = ZeroMask
    /\ im_divided = ZeroMask
    /\ fg_pc = "start"

IdleGaps ==
    /\ mask_shapes_overlap = ZeroMask
    /\ mask_trimmed = FalseMask
    /\ to_divide = ZeroMask
    /\ im_divided = ZeroMask
    /\ fg_pc = "idle"

\* lines 289-317
GapsOpen ==
    /\ fg_pc = "start"
    /\ \E opened \in opening(MaskToTrim(mask_shapes_overlap), OpeningRadius) :
          mask_trimmed' = TrimUnion(opened, mask_shapes_overlap)
    /\ fg_pc' = "opened"
    /\ UNCHANGED <<mask_shapes_overlap, to_divide, im_divided>>
    /\ UNCHANGED notGaps

\* line 318
GapsErode ==
    /\ fg_pc = "opened"
    /\ \E eroded \in binary_erosion(mask_trimmed, ErosionRadius) :
          mask_trimmed' = TrimUnion(eroded, mask_shapes_overlap)
    /\ fg_pc' = "eroded"
    /\ UNCHANGED <<mask_shapes_overlap, to_divide, im_divided>>
    /\ UNCHANGED notGaps

\* line 319
GapsClose ==
    /\ fg_pc = "eroded"
    /\ \E closed \in closing(mask_trimmed, ClosingRadius) :
          mask_trimmed' = TrimUnion(closed, mask_shapes_overlap)
    /\ fg_pc' = "closed"
    /\ UNCHANGED <<mask_shapes_overlap, to_divide, im_divided>>
    /\ UNCHANGED notGaps

\* lines 322-327
GapsDivide ==
    /\ fg_pc = "closed"
    /\ LET td == ToDivide(mask_trimmed, mask_shapes_overlap) IN
        /\ to_divide' = td
        /\ \E e \in expand_labels(ZeroSentinel(mask_shapes_overlap), ExpandDistance) :
              im_divided' = [p \in Pixels |-> e[p] * td[p]]
    /\ fg_pc' = "done"
    /\ UNCHANGED <<mask_shapes_overlap, mask_trimmed>>
    /\ UNCHANGED notGaps

NextGaps ==
    \/ GapsOpen
    \/ GapsErode
    \/ GapsClose
    \/ GapsDivide


-----------------------------------------------------------------------------
(* calculate_perpendicular_index *)

\* math.pi in angle units
Pi == 2 * HalfPi

Angles == (0 - MaxTurns * 2 * Pi) .. (MaxTurns * 2 * Pi)

Abs(x) == IF x >= 0 THEN x ELSE 0 - x

\* lines 345-357.  The returned M = angle_between_lines/(math.pi/2) is kept
\* as the fraction num/den of two angle counts.
calculate_perpendicular_index(a, b) ==
    LET angle0 == Abs(a - b)
        angle1 == IF angle0 > Pi THEN angle0 - Pi ELSE angle0
        angle2 == IF angle1 > HalfPi THEN HalfPi - (angle1 - HalfPi) ELSE angle1
    IN [num |-> angle2, den |-> HalfPi]

NoFraction == [num |-> 0, den |-> 0]

InitAngle ==
    /\ alpha \in Angles
    /\ beta \in Angles
    /\ M = NoFraction
    /\ pi_pc = "call"

IdleAngle ==
    /\ alpha = 0
    /\ beta = 0
    /\ M = NoFraction
    /\ pi_pc = "idle"

PerpendicularIndexCall ==
    /\ pi_pc = "call"
    /\ M' = calculate_perpendicular_index(alpha, beta)
    /\ pi_pc' = "returned"
    /\ UNCHANGED <<alpha, beta>>
    /\ UNCHANGED notAngle

NextAngle == PerpendicularIndexCall

-----------------------------------------------------------------------------
(* calculate_orientation, orientations_from_vertices *)

RECURSIVE GCD(_, _)
GCD(a, b) == IF b = 0 THEN a ELSE GCD(b, a % b)

\* np.arctan2(dy, dx).  An angle of (-pi, pi] is kept as the direction it
\* points in, the pair <<dy, dx>> in lowest terms; np.arctan2(0, 0) is 0,
\* the direction <<0, 1>>.
arctan2(dy, dx) ==
    IF dy = 0 /\ dx = 0 THEN <<0, 1>>
    ELSE LET g == GCD(Abs(dy), Abs(dx)) IN <<dy \div g, dx \div g>>

\* The four axis directions as angles.
AngleZero == arctan2(0, 1)
AngleHalfPi == arctan2(1, 0)
AnglePi == arctan2(0, 0 - 1)
AngleMinusHalfPi == arctan2(0 - 1, 0)

calculate_orientation_transposed(point1, point2) ==
    arctan2(point2[1] - point1[1], point2[2] - point1[2])

\* lines 131-134 (a Python point p is <<p[0], p[1]>>)
calculate_orientation(point1, point2) ==
    LET dx == point2[1] - point1[1]
        dy == point2[2] - point1[2]
    IN arctan2(dy, dx)

Vertices == (0 .. MaxCoord) \X (0 .. MaxCoord)
VertexLists == UNION {[1 .. n -> Vertices] : n \in 1 .. MaxVerts}

\* lines 169-190
orientations_from_vertices(v) ==
    [k \in 1 .. Len(v) |->
        LET p0 == v[k]
            p1 == IF k = Len(v) THEN v[1] ELSE v[k + 1]
            \* lines 181-182: (row, col) becomes (x, y) = (col, row)
            q0 == <<p0[2], p0[1]>>
            q1 == <<p1[2], p1[1]>>
        IN calculate_orientation(q1, q0)]

InitOrient ==
    /\ vert \in VertexLists
    /\ my_rad_list = <<>>
    /\ ov_pc = "call"

IdleOrient ==
    /\ vert = <<>>
    /\ my_rad_list = <<>>
    /\ ov_pc = "idle"

OrientationsCall ==
    /\ ov_pc = "call"
    /\ my_rad_list' = orientations_from_vertices(vert)
    /\ ov_pc' = "returned"
    /\ UNCHANGED vert
    /\ UNCHANGED notOrient

NextOrient == OrientationsCall

-----------------------------------------------------------------------------
(* interpolate_and_fill *)

\* A sample is a fraction <<num, den>>; not-a-number is <<0, 0>>.
NaN == <<0, 0>>
isnan(v) == v[2] = 0
Sample(n) == <<n, 1>>

\* A fraction in lowest terms (den > 0).
Fraction(n, d) == LET g == GCD(Abs(n), d) IN <<n \div g, d \div g>>

Samples == {NaN} \cup {Sample(n) : n \in 0 .. MaxValue}
Signals == UNION {[1 .. n -> Samples] : n \in 1 .. MaxLen}

\* The 0-based indices k, in increasing order, at which isnan(sig[k]) = want.
RECURSIVE Where(_, _, _)
Where(sig, want, n) ==
    IF n = 0 THEN <<>>
    ELSE IF isnan(sig[n]) = want
         THEN Append(Where(sig, want, n - 1), n - 1)
         ELSE Where(sig, want, n - 1)

\* sig[~np.isnan(sig)]
RECURSIVE Defined(_, _)
Defined(sig, n) ==
    IF n = 0 THEN <<>>
    ELSE IF isnan(sig[n]) THEN Defined(sig, n - 1)
         ELSE Append(Defined(sig, n - 1), sig[n])

\* ndarray.squeeze() of k entries (k x 1 from np.argwhere, or k): every
\* axis of length 1 goes, so one entry leaves an array of 0 dimensions.
squeeze(entries) ==
    [ndim |-> IF Len(entries) = 1 THEN 0 ELSE 1, data |-> entries]

\* np.interp accepts x of any depth, and xp and fp of depth 1 exactly and
\* not empty.
InterpRejects(xp, fp) ==
    \/ xp.ndim # 1
    \/ fp.ndim # 1
    \/ Len(xp.data) = 0

\* np.interp at one point x, for increasing xp: the edge values outside
\* [xp[0], xp[-1]], the chord between the two neighbours inside.
InterpAt(x, xp, fp) ==
    LET n == Len(xp) IN
    IF x <= xp[1] THEN fp[1]
    ELSE IF x >= xp[n] THEN fp[n]
    ELSE LET j == CHOOSE j \in 1 .. (n - 1) : xp[j] <= x /\ x < xp[j + 1]
             dx == xp[j + 1] - xp[j]
         IN Fraction(fp[j][1] * dx + (fp[j + 1][1] - fp[j][1]) * (x - xp[j]), dx)

\* lines 509-519: the array signal after signal[x] = values_interp
Filled(sig) ==
    LET xp == squeeze(Where(sig, FALSE, Len(sig)))
        fp == squeeze(Defined(sig, Len(sig)))
    IN [k \in 1 .. Len(sig) |->
          IF isnan(sig[k]) THEN InterpAt(k - 1, xp.data, fp.data) ELSE sig[k]]

InitInterp ==
    /\ signal \in Signals
    /\ signal_before = signal
    /\ it_ret = <<>>
    /\ it_pc = "call"
    /\ it_err = ""

IdleInterp ==
    /\ signal = <<>>
    /\ signal_before = <<>>
    /\ it_ret = <<>>
    /\ it_pc = "idle"
    /\ it_err = ""

\* line 516 raises: xp or fp lost its only axis, or there is no defined sample.
InterpolateRaise ==
    /\ it_pc = "call"
    /\ InterpRejects(squeeze(Where(signal, FALSE, Len(signal))),
                     squeeze(Defined(signal, Len(signal))))
    /\ it_pc' = "raised"
    /\ it_err' = "ValueError"
    /\ UNCHANGED <<signal, signal_before, it_ret>>
    /\ UNCHANGED notInterp

\* lines 509-521: the caller's array is written (line 519) and returned.
InterpolateReturn ==
    /\ it_pc = "call"
    /\ ~InterpRejects(squeeze(Where(signal, FALSE, Len(signal))),
                      squeeze(Defined(signal, Len(signal))))
    /\ signal' = Filled(signal)
    /\ it_ret' = signal'
    /\ it_pc' = "returned"
    /\ UNCHANGED <<signal_before, it_err>>
    /\ UNCHANGED notInterp

NextInterp ==
    \/ InterpolateRaise
    \/ InterpolateReturn

-----------------------------------------------------------------------------
(* get_internal_points, divide_cell_outside_ring *)

NoValue == [kind |-> "", layers |-> <<>>, rows |-> 0]

\* ceil(hypot(d_row, d_col) + 1), line 403
LineLength(src, dst) ==
    LET sq == (dst[1] - src[1]) * (dst[1] - src[1]) + (dst[2] - src[2]) * (dst[2] - src[2])
        root == CHOOSE k \in 0 .. sq : k * k >= sq /\ \A m \in 0 .. (k - 1) : m * m < sq
    IN root + 1

\* The number of profile points over all edges of the closed polygon (lines 437-450).
RECURSIVE ProfilePoints(_, _)
ProfilePoints(v, n) ==
    IF n = 0 THEN 0
    ELSE ProfilePoints(v, n - 1) + LineLength(v[n], IF n = Len(v) THEN v[1] ELSE v[n + 1])

\* lines 431-475.  The returned value: the str of line 432, or the
\* DataFrame, kept as its layer numbers and its rows per layer.
get_internal_points(v, lw) ==
    IF lw < 3
    THEN [kind |-> "str", layers |-> <<>>, rows |-> 0]
    ELSE LET start_including == lw \div 2
         IN [kind |-> "DataFrame",
             layers |-> [k \in 1 .. (lw - start_including) |-> k - 1],
             rows |-> ProfilePoints(v, Len(v))]

\* KMeans(n_clusters=k).fit(points) refuses fewer samples than clusters (line 232).
KMeansRejects(n_samples, k) == n_samples < k

InitConfig ==
    /\ \/ /\ cfg_fn = "get_internal_points"
          /\ vert \in VertexLists
          /\ line_width \in 0 .. MaxLineWidth
          /\ n_seed = 0
          /\ segment_number = 0
       \/ /\ cfg_fn = "divide_cell_outside_ring"
          /\ vert = <<>>
          /\ line_width = 0
          /\ n_seed \in 0 .. MaxSeed
          /\ segment_number \in 1 .. MaxSegments
    /\ my_rad_list = <<>>
    /\ ov_pc = "idle"
    /\ cfg_ret = NoValue
    /\ cfg_pc = "call"
    /\ cfg_err = ""

IdleConfig ==
    /\ cfg_fn = ""
    /\ line_width = 0
    /\ n_seed = 0
    /\ segment_number = 0
    /\ cfg_ret = NoValue
    /\ cfg_pc = "idle"
    /\ cfg_err = ""

\* get_internal_points: every path ends in a return statement.
InternalPointsCall ==
    /\ cfg_pc = "call"
    /\ cfg_fn = "get_internal_points"
    /\ cfg_ret' = get_internal_points(vert, line_width)
    /\ cfg_pc' = "returned"
    /\ UNCHANGED <<cfg_fn, line_width, n_seed, segment_number, cfg_err>>
    /\ UNCHANGED notConfig

\* divide_cell_outside_ring, lines 223-232: the erosions and the seed
\* contour are computed, then KMeans.fit raises.
DivideRaise ==
    /\ cfg_pc = "call"
    /\ cfg_fn = "divide_cell_outside_ring"
    /\ KMeansRejects(n_seed, segment_number)
    /\ cfg_pc' = "raised"
    /\ cfg_err' = "ValueError"
    /\ UNCHANGED <<cfg_fn, line_width, n_seed, segment_number, cfg_ret>>
    /\ UNCHANGED notConfig

\* divide_cell_outside_ring, lines 223-273: the ring pixels come back with
\* a segment id below segment_number each.
DivideReturn ==
    /\ cfg_pc = "call"
    /\ cfg_fn = "divide_cell_outside_ring"
    /\ ~KMeansRejects(n_seed, segment_number)
    /\ cfg_ret' = [kind |-> "points_array",
                   layers |-> [k \in 1 .. segment_number |-> k - 1],
                   rows |-> 0]
    /\ cfg_pc' = "returned"
    /\ UNCHANGED <<cfg_fn, line_width, n_seed, segment_number, cfg_err>>
    /\ UNCHANGED notConfig

NextConfig ==
    \/ InternalPointsCall
    \/ DivideRaise
    \/ DivideReturn

-----------------------------------------------------------------------------
(* Specifications: one call of one function each *)

InitSpecMask   == InitMask /\ IdleGaps /\ IdleAngle /\ IdleOrient /\ IdleInterp /\ IdleConfig
InitSpecGaps   == IdleMask /\ InitGaps /\ IdleAngle /\ IdleOrient /\ IdleInterp /\ IdleConfig
InitSpecAngle  == IdleMask /\ IdleGaps /\ InitAngle /\ IdleOrient /\ IdleInterp /\ IdleConfig
InitSpecOrient == IdleMask /\ IdleGaps /\ IdleAngle /\ InitOrient /\ IdleInterp /\ IdleConfig
InitSpecInterp == IdleMask /\ IdleGaps /\ IdleAngle /\ IdleOrient /\ InitInterp /\ IdleConfig
InitSpecConfig == IdleMask /\ IdleGaps /\ IdleAngle /\ IdleInterp /\ InitConfig

SpecMask   == InitSpecMask /\ [][NextMask]_vars
SpecGaps   == InitSpecGaps /\ [][NextGaps]_vars
SpecAngle  == InitSpecAngle /\ [][NextAngle]_vars
SpecOrient == InitSpecOrient /\ [][NextOrient]_vars
SpecInterp == InitSpecInterp /\ [][NextInterp]_vars
SpecConfig == InitSpecConfig /\ [][NextConfig]_vars

-----------------------------------------------------------------------------
(* Properties of create_mask_from_shapes, checked under SpecMask *)

\* The polygons of the argument whose filled interior holds pixel p.
Covering(p) ==
    {k \in 1 .. Len(vertices_polygons) : p \in vertices_polygons[k].fill}

AllDrawnIn2D ==
    \A k \in 1 .. Len(vertices_polygons) : vertices_polygons[k].ndim = 2

\* C1: for a list of 2D polygons, once the call has returned, every pixel
\* in the interior of two or more polygons holds 255 in the overlap-aware
\* mask and 0 in the overlap-free mask.
C1_OverlapHoldsSentinel ==
    (mk_pc = "returned" /\ AllDrawnIn2D) =>
        \A p \in Pixels :
            Cardinality(Covering(p)) >= 2 =>
                ret_overlap[p] = Sentinel /\ ret_shapes[p] = 0

\* C2: for polygons drawn in 2D or in 3D, the call returns, step i
\* accumulates polygon i's own interior, a pixel covered by polygon i alone
\* holds i+1 in both masks, a pixel covered by none holds 0, and the two
\* masks agree when the polygons are pairwise disjoint.
C2_EachStepAddsOwnInterior ==
    /\ mk_pc # "raised"
    /\ \A k \in 1 .. Len(accumulated) : accumulated[k] = vertices_polygons[k].fill
    /\ mk_pc = "returned" =>
        /\ \A p \in Pixels :
              /\ \A k \in 1 .. Len(vertices_polygons) :
                    Covering(p) = {k} => ret_overlap[p] = k /\ ret_shapes[p] = k
              /\ Covering(p) = {} => ret_overlap[p] = 0 /\ ret_shapes[p] = 0
        /\ (\A p \in Pixels : Cardinality(Covering(p)) <= 1) => ret_overlap = ret_shapes

-----------------------------------------------------------------------------
(* Properties of fill_gaps_between_cells, checked under SpecGaps *)

\* A pixel with a clean label in the argument: non-zero and not the sentinel.
Clean(p) == mask_shapes_overlap[p] # 0 /\ mask_shapes_overlap[p] # Sentinel

\* C6, as claimed: every pixel that holds 255 in the argument carries in the
\* result a non-zero, non-sentinel value that labels a region of the
\* overlap-free mask.
C6_SentinelGetsRegionLabel ==
    fg_pc = "done" =>
        \A p \in Pixels :
            mask_shapes_overlap[p] = Sentinel =>
                /\ im_divided[p] # 0
                /\ im_divided[p] # Sentinel
                /\ \E q \in Pixels : Clean(q) /\ im_divided[p] = mask_shapes_overlap[q]

\* C6, amended: a pixel that holds 255 in the argument carries in the result
\* the label of a nearest clean-labelled pixel when one lies within the
\* expansion distance, and 0 when none does.
C6_SentinelGetsNearestLabelIfAny ==
    fg_pc = "done" =>
        \A p \in Pixels :
            mask_shapes_overlap[p] = Sentinel =>
                LET near == {q \in Pixels : Clean(q) /\ Dist(p, q) <= ExpandDistance}
                IN IF near = {}
                   THEN im_divided[p] = 0
                   ELSE \E q \in near :
                           /\ \A c \in near : Dist(p, q) <= Dist(p, c)
                           /\ im_divided[p] = mask_shapes_overlap[q]

\* C6 witness: the call is over and a sentinel pixel of the argument has
\* taken the label of a clean-labelled pixel.
C6_Witness ==
    /\ fg_pc = "done"
    /\ \E p, q \in Pixels :
          /\ mask_shapes_overlap[p] = Sentinel
          /\ Clean(q)
          /\ im_divided[p] = mask_shapes_overlap[q]

\* C7: whatever opening, erosion and closing return, to_divide is 0 or 1
\* everywhere and 0 at every clean-labelled pixel, so the result is 0 at
\* every clean-labelled pixel and non-zero only where the argument was
\* background or sentinel.
C7_ToDivideIsIndicatorOffCleanPixels ==
    fg_pc = "done" =>
        \A p \in Pixels :
            /\ to_divide[p] \in {0, 1}
            /\ Clean(p) => to_divide[p] = 0 /\ im_divided[p] = 0
            /\ im_divided[p] # 0 => mask_shapes_overlap[p] \in {0, Sentinel}

\* C7 witness: the call is over on a mask with a clean pixel, a background
\* pixel that the trimming kept and that took a label, and a background
\* pixel that the trimming dropped.
C7_Witness ==
    /\ fg_pc = "done"
    /\ \E p, q, r \in Pixels :
          /\ Clean(p)
          /\ mask_shapes_overlap[q] = 0 /\ mask_trimmed[q] /\ im_divided[q] # 0
          /\ mask_shapes_overlap[r] = 0 /\ ~mask_trimmed[r] /\ im_divided[r] = 0

-----------------------------------------------------------------------------
(* Properties of calculate_perpendicular_index, checked under SpecAngle *)

\* C3: the returned value lies in [0, 1], is 0 when the two directions are
\* parallel (the angles differ by a multiple of pi) and 1 when they are
\* perpendicular (by an odd multiple of pi/2).
C3_IndexWithinUnitInterval ==
    pi_pc = "returned" =>
        /\ 0 <= M.num /\ M.num <= M.den
        /\ (alpha - beta) % Pi = 0 => M.num = 0
        /\ (alpha - beta) % Pi = HalfPi => M.num = M.den

\* C4: the score has period pi in each argument, and in particular
\* score(alpha, alpha + pi) = score(alpha, alpha).
C4_IndexHasPeriodPi ==
    pi_pc = "returned" =>
        /\ calculate_perpendicular_index(alpha + Pi, beta) = M
        /\ calculate_perpendicular_index(alpha, beta + Pi) = M
        /\ calculate_perpendicular_index(alpha, alpha + Pi)
             = calculate_perpendicular_index(alpha, alpha)

-----------------------------------------------------------------------------
(* Properties of orientations_from_vertices, checked under SpecOrient *)

\* The vertex after vertex k of the closed polygon.
After(k) == IF k = Len(vert) THEN 1 ELSE k + 1

UnitSquare == <<<<0, 0>>, <<0, 1>>, <<1, 1>>, <<1, 0>>>>

\* C5, as claimed: one angle per vertex, angle k being atan2(dy, dx) of the
\* edge directed from vertex k to the next vertex, with x = col and y = row;
\* for the axis-aligned square each angle is the direction of traversal.
C5_AngleAlongTraversal ==
    ov_pc = "returned" =>
        /\ Len(my_rad_list) = Len(vert)
        /\ \A k \in 1 .. Len(vert) :
              my_rad_list[k] = arctan2(vert[After(k)][1] - vert[k][1],
                                       vert[After(k)][2] - vert[k][2])
        /\ vert = UnitSquare =>
              my_rad_list = <<AngleZero, AngleHalfPi, AnglePi, AngleMinusHalfPi>>

\* C5, amended: one angle per vertex, angle k being atan2(dy, dx) of the
\* edge directed from the next vertex back to vertex k, with x = col and
\* y = row; for the axis-aligned square the four angles are pi, -pi/2, 0 and
\* pi/2, each the reverse of the direction of traversal.
C5_AngleAgainstTraversal ==
    ov_pc = "returned" =>
        /\ Len(my_rad_list) = Len(vert)
        /\ \A k \in 1 .. Len(vert) :
              my_rad_list[k] = arctan2(vert[k][1] - vert[After(k)][1],
                                       vert[k][2] - vert[After(k)][2])
        /\ vert = UnitSquare =>
              my_rad_list = <<AnglePi, AngleMinusHalfPi, AngleZero, AngleHalfPi>>

\* C5 witness: the call has returned the four angles of the unit square.
C5_Witness ==
    /\ ov_pc = "returned"
    /\ vert = UnitSquare
    /\ Len(my_rad_list) = 4

-----------------------------------------------------------------------------
(* Properties of interpolate_and_fill, checked under SpecInterp *)

HasDefined(sig) == \E k \in 1 .. Len(sig) : ~isnan(sig[k])
FirstDefined(sig) == CHOOSE k \in 1 .. Len(sig) :
                        ~isnan(sig[k]) /\ \A j \in 1 .. (k - 1) : isnan(sig[j])
LastDefined(sig) == CHOOSE k \in 1 .. Len(sig) :
                        ~isnan(sig[k]) /\ \A j \in (k + 1) .. Len(sig) : isnan(sig[j])

\* C8: for a signal with at least one defined entry the call returns a
\* sequence of the same length in which defined entries keep their value,
\* no undefined entry remains, and entries before the first or after the
\* last defined one take that edge's value.
C8_FillsEverySignalWithADefinedEntry ==
    (it_pc # "call" /\ HasDefined(signal_before)) =>
        /\ it_pc = "returned"
        /\ Len(it_ret) = Len(signal_before)
        /\ \A k \in 1 .. Len(it_ret) :
              /\ ~isnan(it_ret[k])
              /\ ~isnan(signal_before[k]) => it_ret[k] = signal_before[k]
              /\ k < FirstDefined(signal_before) =>
                    it_ret[k] = signal_before[FirstDefined(signal_before)]
              /\ k > LastDefined(signal_before) =>
                    it_ret[k] = signal_before[LastDefined(signal_before)]

\* C9: after the call the array the caller passed in holds the values it
\* held before the call.
C9_ArgumentKeepsItsValues ==
    it_pc \in {"returned", "raised"} => signal = signal_before

-----------------------------------------------------------------------------
(* Properties of the parameter checks, checked under SpecConfig *)

\* C10: get_internal_points with line_width < 3, and
\* divide_cell_outside_ring with segment_number above the number of
\* seed-contour pixels, end in an error and never in a returned value.
C10_InvalidParametersEndInError ==
    /\ (cfg_fn = "get_internal_points" /\ line_width < 3 /\ cfg_pc # "call")
          => cfg_pc = "raised"
    /\ (cfg_fn = "divide_cell_outside_ring" /\ segment_number > n_seed /\ cfg_pc # "call")
          => cfg_pc = "raised"

====
